---------------------------- MODULE Spec2Model ----------------------------
(***************************************************************************)
(* A model of pypher (src/pypher/pypher.py): the geometric transforms      *)
(* (imresample, trim, zero_pad), the PSF -> OTF conversion, the Wiener     *)
(* filter, the homogenization kernel and the unsupervised Wiener-Hunt      *)
(* Gibbs sampler.                                                          *)
(*                                                                         *)
(* Each function is a small sequential program with its own program        *)
(* counter; each has a specification of its own (SpecResample, SpecGeom,   *)
(* SpecOtf, SpecClip, SpecUnsup, SpecLoop) whose Init draws the            *)
(* function's inputs from bounded sets and leaves the other functions'     *)
(* variables idle.                                                         *)
(***************************************************************************)
EXTENDS Integers, Sequences, FiniteSets, TLC

VARIABLES
    \* imresample
    rs_pc, old_size, source_pscale, target_pscale, new_size, ratio, zoom_out,
    \* trim and zero_pad
    g_pc, image, image_in, shape, position, pad_img, trimmed,
    \* psf2otf and deconv_wiener
    o_pc, psf, out_shape, reg_fact, fft_in, otf, wiener,
    \* homogenization_kernel
    k_pc, kernel_image, k_clip, kernel_out,
    \* deconv_unsup_wiener
    u_pc, user_settings, settings_dict, settings, u_clip, range_next,
    iteration, delta, x_postmean, prev_x_postmean, chain_len, broke,
    post_image, result

resampleVars == <<rs_pc, old_size, source_pscale, target_pscale, new_size,
                  ratio, zoom_out>>
geomVars == <<g_pc, image, image_in, shape, position, pad_img, trimmed>>

otfVars == <<o_pc, psf, out_shape, reg_fact, fft_in, otf, wiener>>

kernelVars == <<k_pc, kernel_image, k_clip, kernel_out>>
unsupVars == <<u_pc, user_settings, settings_dict, settings, u_clip, range_next,
               iteration, delta, x_postmean, prev_x_postmean, chain_len, broke,
               post_image, result>>

vars == <<resampleVars, geomVars, otfVars, kernelVars, unsupVars>>

otherThanResample == <<geomVars, otfVars, kernelVars, unsupVars>>
otherThanGeom == <<resampleVars, otfVars, kernelVars, unsupVars>>
otherThanOtf == <<resampleVars, geomVars, kernelVars, unsupVars>>
otherThanKernel == <<resampleVars, geomVars, otfVars, unsupVars>>
otherThanUnsup == <<resampleVars, geomVars, otfVars, kernelVars>>

(***************************************************************************)
(* Bounds of the model.                                                    *)
(***************************************************************************)
\* image sides 1..MaxOldSize are tried besides the sides around SizeLimit
MaxOldSize == 6
\* pixel scales are k in 1..MaxScale, in a common unit of arcsec
MaxScale == 4
\* images have 1..MaxDim rows and columns
MaxDim == 4
\* the pixel values of an image start at a base in 0..MaxBase
MaxBase == 1
\* PSFs have 1..MaxPsfDim rows and columns
MaxPsfDim == 3
\* the peak of a PSF is in 1..MaxPeak
MaxPeak == 2
\* the pixels of a kernel or posterior-mean image are in -MaxPixel..MaxPixel
MaxPixel == 2
\* the Gibbs loop is run for max_iter in 0..MaxMaxIter,
MaxMaxIter == 5
\* min_iter in 0..MaxMinIter,
MaxMinIter == 3
\* burnin in 0..MaxBurnin,
MaxBurnin == 3
\* threshold in 1..MaxThreshold (in units of 1e-4),
MaxThreshold == 2
\* and the convergence statistic delta takes the values 0..MaxDelta (same unit)
MaxDelta == 2

(***************************************************************************)
(* imresample (lines 150-188)                                              *)
(***************************************************************************)
\* line 178: the largest side the resampling accepts
SizeLimit == 10000

\* int(np.ceil(a / b)) for integers a >= 0, b > 0 (line 176)
CeilDiv(a, b) == (a + b - 1) \div b

\* lines 175-176: new_size = int(np.ceil(old_size * source_pscale / target_pscale))
\* The pixel scales are positive multiples of a common unit, which cancels
\* in the quotient; the quotient is exact (no floating-point round-off).
NewSizeRaw(old, src, tgt) == CeilDiv(old * src, tgt)

\* A guard that takes the limit for a pixel count instead of a side length.
ExceedsLimitAsArea(size) == size > SizeLimit * SizeLimit

\* line 178: if new_size > 10000
ExceedsLimit(size) == size > SizeLimit

\* lines 183-184: if not (old_size - new_size) % 2: new_size += 1
AdjustParity(old, new) == IF (old - new) % 2 = 0 THEN new + 1 ELSE new

\* The sides tried: small ones, and the ones around the limit and its half.
OldSizes == (1 .. MaxOldSize)
            \cup {SizeLimit \div 2, SizeLimit - 1, SizeLimit, SizeLimit + 1}

IdleResample ==
    /\ rs_pc = "idle"
    /\ old_size = 1
    /\ source_pscale = 1
    /\ target_pscale = 1
    /\ new_size = 0
    /\ ratio = <<0, 1>>
    /\ zoom_out = 0

InitResample ==
    /\ rs_pc = "start"
    /\ old_size \in OldSizes
    /\ source_pscale \in 1 .. MaxScale
    /\ target_pscale \in 1 .. MaxScale
    /\ new_size = 0          \* not computed yet
    /\ ratio = <<0, 1>>      \* not computed yet
    /\ zoom_out = 0          \* side of the array zoom allocated; 0: no zoom

\* lines 174-176
ImresampleSize ==
    /\ rs_pc = "start"
    /\ new_size' = NewSizeRaw(old_size, source_pscale, target_pscale)
    /\ rs_pc' = "sized"
    /\ UNCHANGED <<old_size, source_pscale, target_pscale, ratio, zoom_out>>
    /\ UNCHANGED otherThanResample

\* lines 178-180
ImresampleGuard ==
    /\ rs_pc = "sized"
    /\ rs_pc' = IF ExceedsLimit(new_size) THEN "MemoryError" ELSE "guarded"
    /\ UNCHANGED <<old_size, source_pscale, target_pscale, new_size, ratio,
                   zoom_out>>
    /\ UNCHANGED otherThanResample

\* lines 182-184
ImresampleParity ==
    /\ rs_pc = "guarded"
    /\ new_size' = AdjustParity(old_size, new_size)
    /\ rs_pc' = "parity"
    /\ UNCHANGED <<old_size, source_pscale, target_pscale, ratio, zoom_out>>
    /\ UNCHANGED otherThanResample

\* lines 186-188: ratio = new_size / old_size; zoom(image, ratio) allocates an
\* output whose side is round(old_size * ratio) = new_size.
ImresampleZoom ==
    /\ rs_pc = "parity"
    /\ ratio' = <<new_size, old_size>>
    /\ zoom_out' = new_size
    /\ rs_pc' = "returned"
    /\ UNCHANGED <<old_size, source_pscale, target_pscale, new_size>>
    /\ UNCHANGED otherThanResample

NextResample ==
    \/ ImresampleSize
    \/ ImresampleGuard
    \/ ImresampleParity
    \/ ImresampleZoom

(***************************************************************************)
(* Arrays: a 2-D numpy array is a record of its shape and of its elements, *)
(* indexed from 0.                                                         *)
(***************************************************************************)
Indices(r, c) == (0 .. r - 1) \X (0 .. c - 1)

Array(r, c, f) == [rows |-> r, cols |-> c, data |-> [p \in Indices(r, c) |-> f[p]]]

ShapeOf(a) == <<a.rows, a.cols>>

\* A function's outcome: the array it returns, or the exception it raises.
Returned(a) == [status |-> "ok", value |-> a]
Raised(e) == [status |-> e, value |-> Array(0, 0, <<>>)]
NoResult == [status |-> "none", value |-> Array(0, 0, <<>>)]

(***************************************************************************)
(* trim (lines 191-228)                                                    *)
(***************************************************************************)
\* A parity test that was left out.
TrimParityUnchecked(dshape) == FALSE

\* line 221: np.any(dshape % 2 != 0)
TrimParityMismatch(dshape) == dshape[1] % 2 # 0 \/ dshape[2] % 2 # 0

\* lines 208-228
Trim(img, shp) ==
    LET imshape == ShapeOf(img)
        dshape == <<imshape[1] - shp[1], imshape[2] - shp[2]>>
        offx == dshape[1] \div 2
        offy == dshape[2] \div 2
    IN  IF imshape = shp THEN Returned(img)
        ELSE IF shp[1] <= 0 \/ shp[2] <= 0 THEN Raised("ValueError")
        ELSE IF dshape[1] < 0 \/ dshape[2] < 0 THEN Raised("ValueError")
        ELSE IF TrimParityMismatch(dshape) THEN Raised("ValueError")
        ELSE Returned(Array(shp[1], shp[2],
                 [p \in Indices(shp[1], shp[2]) |->
                      img.data[<<p[1] + offx, p[2] + offy>>]]))

(***************************************************************************)
(* zero_pad (lines 231-281)                                                *)
(***************************************************************************)
\* An offset that places the image at the corner whatever the position.
PadOffsetAtCorner(dshape, pos) == <<0, 0>>

\* lines 271-277: the offset of the image in the padded array
PadOffset(dshape, pos) ==
    IF pos = "center" THEN <<dshape[1] \div 2, dshape[2] \div 2>> ELSE <<0, 0>>

\* lines 254-281
ZeroPad(img, shp, pos) ==
    LET imshape == ShapeOf(img)
        dshape == <<shp[1] - imshape[1], shp[2] - imshape[2]>>
        off == PadOffset(dshape, pos)
        inside(p) == /\ p[1] - off[1] \in 0 .. imshape[1] - 1
                     /\ p[2] - off[2] \in 0 .. imshape[2] - 1
    IN  IF imshape = shp THEN Returned(img)
        ELSE IF shp[1] <= 0 \/ shp[2] <= 0 THEN Raised("ValueError")
        ELSE IF dshape[1] < 0 \/ dshape[2] < 0 THEN Raised("ValueError")
        ELSE IF pos = "center" /\ (dshape[1] % 2 # 0 \/ dshape[2] % 2 # 0)
             THEN Raised("ValueError")
        ELSE Returned(Array(shp[1], shp[2],
                 [p \in Indices(shp[1], shp[2]) |->
                      IF inside(p)
                      THEN img.data[<<p[1] - off[1], p[2] - off[2]>>]
                      ELSE 0]))

(***************************************************************************)
(* The images tried: for every shape, the constant images and the images   *)
(* whose pixels are numbered in row-major order, from each base value.     *)
(***************************************************************************)
Ramp(r, c, base, step) ==
    Array(r, c, [p \in Indices(r, c) |-> base + step * (p[1] * c + p[2])])

Images ==
    { Ramp(r, c, base, step) :
        r \in 1 .. MaxDim, c \in 1 .. MaxDim, base \in 0 .. MaxBase, step \in 0 .. 1 }

\* The target shapes tried: null and negative sides, and sides beyond the
\* largest image.
Shapes == (-1 .. MaxDim + 2) \X (-1 .. MaxDim + 2)

IdleGeom ==
    /\ g_pc = "idle"
    /\ image = Array(0, 0, <<>>)
    /\ image_in = Array(0, 0, <<>>)
    /\ shape = <<0, 0>>
    /\ position = "corner"
    /\ pad_img = NoResult
    /\ trimmed = NoResult

\* image_in keeps the image as it was passed in.
InitGeom ==
    /\ g_pc = "start"
    /\ image \in Images
    /\ image_in = image
    /\ shape \in Shapes
    /\ position \in {"corner", "center"}
    /\ pad_img = NoResult
    /\ trimmed = NoResult

\* trim(image, shape)
TrimImage ==
    /\ g_pc = "start"
    /\ trimmed' = Trim(image, shape)
    /\ g_pc' = "trimmed"
    /\ UNCHANGED <<image, image_in, shape, position, pad_img>>
    /\ UNCHANGED otherThanGeom

\* zero_pad(image, shape, position)
ZeroPadImage ==
    /\ g_pc = "start"
    /\ pad_img' = ZeroPad(image, shape, position)
    /\ g_pc' = "padded"
    /\ UNCHANGED <<image, image_in, shape, position, trimmed>>
    /\ UNCHANGED otherThanGeom

\* trim(zero_pad(image, shape, position), image.shape)
TrimPadded ==
    /\ g_pc = "padded"
    /\ pad_img.status = "ok"
    /\ trimmed' = Trim(pad_img.value, ShapeOf(image))
    /\ g_pc' = "roundtrip"
    /\ UNCHANGED <<image, image_in, shape, position, pad_img>>
    /\ UNCHANGED otherThanGeom

NextGeom ==
    \/ TrimImage
    \/ ZeroPadImage
    \/ TrimPadded

(***************************************************************************)
(* Complex numbers.  Every array side tried divides 12, so every DFT of an *)
(* integer array has its values in Z[z], z = exp(2 pi i / 12), which has   *)
(* the basis 1, z, z^2, z^3 over Z (z^4 = z^2 - 1).  A complex number is   *)
(* the tuple <<a, b, c, d>> of a + b z + c z^2 + d z^3; with               *)
(* z = sqrt(3)/2 + i/2, z^2 = 1/2 + i sqrt(3)/2 and z^3 = i:               *)
(*     real part      = ((2a + c) + b sqrt(3)) / 2                         *)
(*     imaginary part = ((b + 2d) + c sqrt(3)) / 2                         *)
(* The arithmetic is exact: the round-off of the floating-point FFT is not *)
(* modelled.                                                               *)
(***************************************************************************)
CZero == <<0, 0, 0, 0>>

CAdd(x, y) == <<x[1] + y[1], x[2] + y[2], x[3] + y[3], x[4] + y[4]>>

CScale(k, x) == <<k * x[1], k * x[2], k * x[3], k * x[4]>>

\* z^k
ZetaPow(k) ==
    LET e == k % 12
        low == CASE e % 6 = 0 -> <<1, 0, 0, 0>>
                 [] e % 6 = 1 -> <<0, 1, 0, 0>>
                 [] e % 6 = 2 -> <<0, 0, 1, 0>>
                 [] e % 6 = 3 -> <<0, 0, 0, 1>>
                 [] e % 6 = 4 -> <<-1, 0, 1, 0>>
                 [] e % 6 = 5 -> <<0, -1, 0, 1>>
    IN  IF e < 6 THEN low ELSE CScale(-1, low)

\* np.conj
CConj(x) == <<x[1] + x[3], x[2], -x[3], -x[2] - x[4]>>

ImagIsZero(x) == x[3] = 0 /\ x[2] + 2 * x[4] = 0

\* np.abs(x)**2 as <<p, q>>, standing for (p + q sqrt(3)) / 4
Abs2(x) ==
    LET re1 == 2 * x[1] + x[3]
        im1 == x[2] + 2 * x[4]
    IN  <<re1 * re1 + 3 * x[2] * x[2] + im1 * im1 + 3 * x[3] * x[3],
          2 * re1 * x[2] + 2 * im1 * x[3]>>

RECURSIVE CSum(_, _)
\* f[0] + ... + f[n - 1]
CSum(f, n) == IF n = 0 THEN CZero ELSE CAdd(f[n - 1], CSum(f, n - 1))

(***************************************************************************)
(* psf2otf (lines 301-355)                                                 *)
(***************************************************************************)
\* The array sides a DFT is computed for.
FFTSizes == {1, 2, 3, 4, 6}

\* np.fft.fft2 of an integer array:
\* X[u, v] = sum over (m, n) of x[m, n] exp(-2 pi i (u m / R + v n / C))
FFT2(a) ==
    LET R == a.rows
        C == a.cols
        term(q, k) ==
            LET m == k \div C
                n == k % C
            IN  CScale(a.data[<<m, n>>],
                       ZetaPow(0 - (12 \div R) * q[1] * m - (12 \div C) * q[2] * n))
    IN  Array(R, C, [q \in Indices(R, C) |->
                        CSum([k \in 0 .. R * C - 1 |-> term(q, k)], R * C)])

\* np.roll(a, -k, axis=0) and np.roll(a, -k, axis=1)
Roll(a, k0, k1) ==
    Array(a.rows, a.cols,
          [p \in Indices(a.rows, a.cols) |->
              a.data[<<(p[1] + k0) % a.rows, (p[2] + k1) % a.cols>>]])

\* A shift computed from the size of the padded array.
ShiftOfPadded(in_size, pad_size) == pad_size \div 2

\* lines 342-343: int(axis_size / 2) for axis_size of inshape, the shape of
\* the PSF before the padding
ShiftOf(in_size, pad_size) == in_size \div 2

\* line 333: np.all(psf == 0)
AllZero(a) == \A p \in DOMAIN a.data : a.data[p] = 0

\* line 334: np.zeros_like(psf)
ZerosLike(a) == Array(a.rows, a.cols, [p \in Indices(a.rows, a.cols) |-> CZero])

\* lines 336-343: the array handed to the FFT
ShiftedPsf(a, shp) ==
    LET padded == ZeroPad(a, shp, "corner")
    IN  IF padded.status # "ok" THEN padded
        ELSE Returned(Roll(padded.value,
                           ShiftOf(a.rows, padded.value.rows),
                           ShiftOf(a.cols, padded.value.cols)))

\* lines 352-353: np.real_if_close: the array is made real when every
\* imaginary part is (within the tolerance) zero
RealIfClose(a) ==
    [dtype |-> IF \A p \in DOMAIN a.data : ImagIsZero(a.data[p])
               THEN "real" ELSE "complex",
     array |-> a]

\* lines 333-355
Psf2otf(a, shp) ==
    IF AllZero(a) THEN [status |-> "ok", value |-> [dtype |-> "real", array |-> ZerosLike(a)]]
    ELSE LET sh == ShiftedPsf(a, shp)
         IN  IF sh.status # "ok"
             THEN [status |-> sh.status, value |-> [dtype |-> "real", array |-> Array(0, 0, <<>>)]]
             ELSE [status |-> "ok", value |-> RealIfClose(FFT2(sh.value))]

(***************************************************************************)
(* deconv_wiener (lines 362-397)                                           *)
(***************************************************************************)
\* lines 362-364
LAPLACIAN ==
    Array(3, 3, [p \in Indices(3, 3) |->
        IF p = <<1, 1>> THEN 4
        ELSE IF p[1] = 1 \/ p[2] = 1 THEN -1
        ELSE 0])

\* lines 394-395: one element of the filter, the quotient
\*   conj(trans_func) / (abs(trans_func)**2 + reg_fact * abs(reg_op)**2)
\* kept as its numerator and its denominator; reg is the regularization
\* factor reg[1] / reg[2] and the denominator <<p, q>> stands for
\* (p + q sqrt(3)) / (4 reg[2]).
WienerElement(tf, ro, reg) ==
    [num |-> CConj(tf),
     den |-> <<reg[2] * Abs2(tf)[1] + reg[1] * Abs2(ro)[1],
               reg[2] * Abs2(tf)[2] + reg[1] * Abs2(ro)[2]>>]

\* What floating-point division makes of an element.
IsNaN(e) == e.den = <<0, 0>> /\ e.num = CZero
IsInf(e) == e.den = <<0, 0>> /\ e.num # CZero
IsZero(e) == e.den # <<0, 0>> /\ e.num = CZero

\* lines 390-397
DeconvWiener(a, reg) ==
    LET trans_func == Psf2otf(a, ShapeOf(a))
        reg_op == Psf2otf(LAPLACIAN, ShapeOf(a))
    IN  IF trans_func.status # "ok" THEN [status |-> trans_func.status, value |-> <<>>]
        ELSE IF reg_op.status # "ok" THEN [status |-> reg_op.status, value |-> <<>>]
        ELSE [status |-> "ok",
              value |-> [p \in Indices(a.rows, a.cols) |->
                            WienerElement(trans_func.value.array.data[p],
                                          reg_op.value.array.data[p], reg)]]

(***************************************************************************)
(* The PSFs tried: for every shape, the all-zero PSF, every single         *)
(* impulse, and the ramps.                                                 *)
(***************************************************************************)
Impulse(r, c, at, peak) ==
    Array(r, c, [p \in Indices(r, c) |-> IF p = at THEN peak ELSE 0])

Psfs ==
    UNION { { Impulse(r, c, at, peak) : at \in Indices(r, c), peak \in 0 .. MaxPeak }
            \cup { Ramp(r, c, 1, 1) } :
            r \in 1 .. MaxPsfDim, c \in 1 .. MaxPsfDim }

\* The regularization factors tried, as <<numerator, denominator>>; 1e-4
\* is the default (line 400).
RegFacts == {<<1, 10000>>, <<1, 1>>, <<3, 2>>}

NoOtf == [dtype |-> "real", array |-> Array(0, 0, <<>>)]

IdleOtf ==
    /\ o_pc = "idle"
    /\ psf = Array(0, 0, <<>>)
    /\ out_shape = <<0, 0>>
    /\ reg_fact = <<1, 1>>
    /\ fft_in = Array(0, 0, <<>>)
    /\ otf = NoOtf
    /\ wiener = <<>>

InitOtf ==
    /\ o_pc = "start"
    /\ psf \in Psfs
    /\ out_shape \in FFTSizes \X FFTSizes
    /\ reg_fact \in RegFacts
    /\ fft_in = Array(0, 0, <<>>)
    /\ otf = NoOtf
    /\ wiener = <<>>

\* psf2otf(psf, out_shape), lines 333-343: the degenerate case, the padding
\* and the circular shift
Psf2otfShift ==
    /\ o_pc = "start"
    /\ IF AllZero(psf)
       THEN /\ otf' = [dtype |-> "real", array |-> ZerosLike(psf)]
            /\ o_pc' = "returned zeros"
            /\ UNCHANGED fft_in
       ELSE LET sh == ShiftedPsf(psf, out_shape)
            IN  /\ o_pc' = IF sh.status = "ok" THEN "shifted" ELSE sh.status
                /\ fft_in' = IF sh.status = "ok" THEN sh.value ELSE fft_in
                /\ UNCHANGED otf
    /\ UNCHANGED <<psf, out_shape, reg_fact, wiener>>
    /\ UNCHANGED otherThanOtf

\* psf2otf(psf, out_shape), lines 345-355: the FFT and real_if_close
Psf2otfFFT ==
    /\ o_pc = "shifted"
    /\ otf' = RealIfClose(FFT2(fft_in))
    /\ o_pc' = "returned"
    /\ UNCHANGED <<psf, out_shape, reg_fact, fft_in, wiener>>
    /\ UNCHANGED otherThanOtf

\* deconv_wiener(psf, reg_fact)
DeconvWienerCall ==
    /\ o_pc = "start"
    /\ out_shape = ShapeOf(psf)
    /\ LET w == DeconvWiener(psf, reg_fact)
       IN  /\ o_pc' = IF w.status = "ok" THEN "wiener" ELSE "wiener " \o w.status
           /\ wiener' = w.value
    /\ UNCHANGED <<psf, out_shape, reg_fact, fft_in, otf>>
    /\ UNCHANGED otherThanOtf

NextOtf ==
    \/ Psf2otfShift
    \/ Psf2otfFFT
    \/ DeconvWienerCall

(***************************************************************************)
(* homogenization_kernel (lines 400-437)                                   *)
(***************************************************************************)
\* kernel_image.clip(-1, 1) (lines 435 and 550): ndarray.clip leaves the
\* array it is called on as it is and returns the clamped values in a new
\* array.
NdarrayClip(a, lo, hi) ==
    [self |-> a,
     out  |-> Array(a.rows, a.cols,
                    [p \in Indices(a.rows, a.cols) |->
                        IF a.data[p] < lo THEN lo
                        ELSE IF a.data[p] > hi THEN hi
                        ELSE a.data[p]])]

\* The values np.real(uidft2(...)) can take (lines 432 and 547): any real
\* image; the ones tried are the 1x2 images of pixels in -MaxPixel..MaxPixel.
RealImages ==
    { Array(1, 2, [p \in Indices(1, 2) |-> IF p[2] = 0 THEN v0 ELSE v1]) :
        v0 \in -MaxPixel .. MaxPixel, v1 \in -MaxPixel .. MaxPixel }

IdleKernel ==
    /\ k_pc = "idle"
    /\ kernel_image = Array(0, 0, <<>>)
    /\ k_clip = FALSE
    /\ kernel_out = Array(0, 0, <<>>)

\* lines 429-432: kernel_image = np.real(uidft2(wiener * udft2(psf_target)))
InitKernel ==
    /\ k_pc = "inverse transformed"
    /\ kernel_image \in RealImages
    /\ k_clip \in BOOLEAN
    /\ kernel_out = Array(0, 0, <<>>)

\* lines 434-437: the expression statement kernel_image.clip(-1, 1) drops
\* the array clip returns; kernel_image is returned
HomogenizationKernelReturn ==
    /\ k_pc = "inverse transformed"
    /\ LET clipped == NdarrayClip(kernel_image, -1, 1)
       IN  kernel_image' = IF k_clip THEN clipped.self ELSE kernel_image
    /\ kernel_out' = kernel_image'
    /\ k_pc' = "returned"
    /\ UNCHANGED k_clip
    /\ UNCHANGED otherThanKernel

NextKernel == HomogenizationKernelReturn

(***************************************************************************)
(* deconv_unsup_wiener (lines 440-560)                                     *)
(***************************************************************************)
\* lines 475-476, the threshold in units of 1e-4
DefaultThreshold == 1
DefaultMaxIter == 200
DefaultMinIter == 100
DefaultBurnin == 30

Keys == {"threshold", "max_iter", "min_iter", "burnin"}

Settings(th, mx, mn, bn) ==
    [k \in Keys |-> CASE k = "threshold" -> th
                      [] k = "max_iter" -> mx
                      [] k = "min_iter" -> mn
                      [] k = "burnin" -> bn]

\* lines 475-476
DefaultSettings ==
    Settings(DefaultThreshold, DefaultMaxIter, DefaultMinIter, DefaultBurnin)

\* A Python value that is a dict or None.
Dict(d) == [none |-> FALSE, dict |-> d]
PyNone == [none |-> TRUE, dict |-> <<>>]

\* the truth value of a dict or None: None and {} are false
Truthy(v) == ~v.none /\ DOMAIN v.dict # {}

\* dict.update: the dict after the call; the call itself returns None
DictUpdate(d, u) ==
    [k \in DOMAIN d \cup DOMAIN u |-> IF k \in DOMAIN u THEN u[k] ELSE d[k]]

\* A comparison that takes NaN for converged, as "not delta >= threshold"
\* would.
FloatNotGreaterEqual(x, y) == x.nan \/ x.value < y

\* comparison of floats: any comparison with NaN is false (line 542)
FloatLess(x, y) == ~x.nan /\ x.value < y

\* line 490: np.NAN
NaN == [nan |-> TRUE, value |-> 0]
Float(v) == [nan |-> FALSE, value |-> v]

\* The user_settings tried: None, {}, the settings of the spec's scenario
\* (max_iter=50, min_iter=10, burnin=5, threshold=1.0) and parts of them.
ScenarioSettings == Settings(10000, 50, 10, 5)

UserSettings ==
    {PyNone} \cup
    { Dict([k \in ks |-> ScenarioSettings[k]]) : ks \in SUBSET Keys }

NoReturn == [reg_val |-> "none", image |-> Array(0, 0, <<>>), divisor |-> 0]

IdleUnsup ==
    /\ u_pc = "idle"
    /\ user_settings = PyNone
    /\ settings_dict = <<>>
    /\ settings = PyNone
    /\ u_clip = FALSE
    /\ range_next = 0
    /\ iteration = -1
    /\ delta = NaN
    /\ x_postmean = <<>>
    /\ prev_x_postmean = <<>>
    /\ chain_len = 0
    /\ broke = FALSE
    /\ post_image = Array(0, 0, <<>>)
    /\ result = NoReturn

\* the call deconv_unsup_wiener(data, source, clip, user_settings)
InitUnsup ==
    /\ u_pc = "start"
    /\ user_settings \in UserSettings
    /\ settings_dict = <<>>
    /\ settings = PyNone
    /\ u_clip \in BOOLEAN
    /\ range_next = 0
    /\ iteration = -1         \* the loop variable is not bound yet
    /\ delta = NaN
    /\ x_postmean = <<>>
    /\ prev_x_postmean = <<>>
    /\ chain_len = 0
    /\ broke = FALSE
    /\ post_image = Array(0, 0, <<>>)
    /\ result = NoReturn

\* lines 475-477: settings_dict is the dict built on line 475; with a
\* non-empty user_settings it is updated in place and settings is bound to
\* what dict.update returns, None.
UnsupSettings ==
    /\ u_pc = "start"
    /\ IF Truthy(user_settings)
       THEN /\ settings_dict' = DictUpdate(DefaultSettings, user_settings.dict)
            /\ settings' = PyNone
       ELSE /\ settings_dict' = DefaultSettings
            /\ settings' = Dict(DefaultSettings)
    /\ u_pc' = "settings"
    /\ UNCHANGED <<user_settings, u_clip, range_next, iteration, delta,
                   x_postmean, prev_x_postmean, chain_len, broke, post_image,
                   result>>
    /\ UNCHANGED otherThanUnsup

\* lines 479-501: the transfer functions, the zero means, delta = NaN and
\* the chains [1], [1]
UnsupSetup ==
    /\ u_pc = "settings"
    /\ x_postmean' = <<>>
    /\ prev_x_postmean' = <<>>
    /\ delta' = NaN
    /\ chain_len' = 1
    /\ u_pc' = "setup"
    /\ UNCHANGED <<user_settings, settings_dict, settings, u_clip, range_next,
                   iteration, broke, post_image, result>>
    /\ UNCHANGED otherThanUnsup

\* line 504: range(settings['max_iter']); subscripting None raises TypeError
UnsupRange ==
    /\ u_pc = "setup"
    /\ u_pc' = IF settings.none THEN "TypeError" ELSE "loop"
    /\ range_next' = 0
    /\ UNCHANGED <<user_settings, settings_dict, settings, u_clip, iteration,
                   delta, x_postmean, prev_x_postmean, chain_len, broke,
                   post_image, result>>
    /\ UNCHANGED otherThanUnsup

\* An accumulation that starts one iteration early, at the burn-in index.
FromBurnin(i, burnin) == i >= burnin

\* line 527: if iteration > settings['burnin']
PastBurnin(i, burnin) == i > burnin

\* lines 504-543: one iteration of the Gibbs loop.  The draws are random:
\* the draw of iteration i stands in the running sum as the index i, and the
\* delta computed from the draws is any value of 0..MaxDelta.
GibbsIteration ==
    /\ u_pc = "loop"
    /\ range_next < settings.dict["max_iter"]
    /\ LET i == range_next
           burnin == settings.dict["burnin"]
           sum == IF PastBurnin(i, burnin)
                  THEN Append(prev_x_postmean, i) ELSE x_postmean
       IN  /\ iteration' = i
           /\ chain_len' = chain_len + 1
           /\ x_postmean' = sum
           /\ \E d \in 0 .. MaxDelta :
                delta' = IF i > burnin + 1 THEN Float(d) ELSE delta
           /\ prev_x_postmean' = sum
           /\ IF i > settings.dict["min_iter"]
                 /\ FloatLess(delta', settings.dict["threshold"])
              THEN /\ broke' = TRUE
                   /\ u_pc' = "exited"
                   /\ UNCHANGED range_next
              ELSE /\ range_next' = i + 1
                   /\ UNCHANGED <<broke, u_pc>>
    /\ UNCHANGED <<user_settings, settings_dict, settings, u_clip, post_image,
                   result>>
    /\ UNCHANGED otherThanUnsup

\* line 504: the range is exhausted
GibbsExhausted ==
    /\ u_pc = "loop"
    /\ range_next >= settings.dict["max_iter"]
    /\ u_pc' = "exited"
    /\ UNCHANGED <<user_settings, settings_dict, settings, u_clip, range_next,
                   iteration, delta, x_postmean, prev_x_postmean, chain_len,
                   broke, post_image, result>>
    /\ UNCHANGED otherThanUnsup

\* lines 545-547: x_postmean / (iteration - burnin), then
\* np.real(uidft2(x_postmean)).  With no iteration run the loop variable is
\* unbound (NameError).  The image is a function of the random draws: any
\* real image.
UnsupPostMean ==
    /\ u_pc = "exited"
    /\ IF iteration = -1
       THEN /\ u_pc' = "NameError"
            /\ UNCHANGED <<post_image, result>>
       ELSE /\ u_pc' = "posterior mean"
            /\ post_image' \in RealImages
            /\ result' = [result EXCEPT
                            !.divisor = iteration - settings.dict["burnin"]]
    /\ UNCHANGED <<user_settings, settings_dict, settings, u_clip, range_next,
                   iteration, delta, x_postmean, prev_x_postmean, chain_len,
                   broke>>
    /\ UNCHANGED otherThanUnsup

\* lines 549-560: the expression statement x_postmean.clip(-1, 1) drops the
\* array clip returns; the estimate is the ratio of the means of the chains
\* from index burnin on (NaN when the chains are no longer than burnin).
UnsupReturn ==
    /\ u_pc = "posterior mean"
    /\ LET clipped == NdarrayClip(post_image, -1, 1)
       IN  post_image' = IF u_clip THEN clipped.self ELSE post_image
    /\ result' = [result EXCEPT
                    !.reg_val = IF chain_len > settings.dict["burnin"]
                                THEN "estimate" ELSE "nan",
                    !.image = post_image']
    /\ u_pc' = "returned"
    /\ UNCHANGED <<user_settings, settings_dict, settings, u_clip, range_next,
                   iteration, delta, x_postmean, prev_x_postmean, chain_len,
                   broke>>
    /\ UNCHANGED otherThanUnsup

NextUnsup ==
    \/ UnsupSettings
    \/ UnsupSetup
    \/ UnsupRange
    \/ GibbsIteration
    \/ GibbsExhausted
    \/ UnsupPostMean
    \/ UnsupReturn

\* The Gibbs loop on its own, entered at line 504 with the settings as its
\* input: the defaults, and every combination within the bounds.
LoopSettings ==
    {DefaultSettings} \cup
    { Settings(th, mx, mn, bn) :
        th \in 1 .. MaxThreshold, mx \in 0 .. MaxMaxIter,
        mn \in 0 .. MaxMinIter, bn \in 0 .. MaxBurnin }

InitLoop ==
    /\ u_pc = "loop"
    /\ user_settings = PyNone
    /\ settings \in { Dict(d) : d \in LoopSettings }
    /\ settings_dict = settings.dict
    /\ u_clip = TRUE
    /\ range_next = 0
    /\ iteration = -1
    /\ delta = NaN
    /\ x_postmean = <<>>
    /\ prev_x_postmean = <<>>
    /\ chain_len = 1
    /\ broke = FALSE
    /\ post_image = Array(0, 0, <<>>)
    /\ result = NoReturn

NextLoop ==
    \/ GibbsIteration
    \/ GibbsExhausted
    \/ UnsupPostMean
    \/ UnsupReturn

(***************************************************************************)
(* Specifications                                                          *)
(***************************************************************************)
\* Each specification starts one function on its inputs, the variables of
\* the other functions being idle.
StartResample == InitResample /\ IdleGeom /\ IdleOtf /\ IdleKernel /\ IdleUnsup

SpecResample == StartResample /\ [][NextResample]_vars

StartGeom == InitGeom /\ IdleResample /\ IdleOtf /\ IdleKernel /\ IdleUnsup

SpecGeom == StartGeom /\ [][NextGeom]_vars

StartOtf == InitOtf /\ IdleResample /\ IdleGeom /\ IdleKernel /\ IdleUnsup

SpecOtf == StartOtf /\ [][NextOtf]_vars

\* either function that clips: homogenization_kernel or deconv_unsup_wiener
StartClip ==
    /\ IdleResample /\ IdleGeom /\ IdleOtf
    /\ \E called \in {"homogenization_kernel", "deconv_unsup_wiener"} :
         IF called = "homogenization_kernel"
         THEN InitKernel /\ IdleUnsup
         ELSE IdleKernel /\ InitUnsup

NextClip == NextKernel \/ NextUnsup

SpecClip == StartClip /\ [][NextClip]_vars

StartUnsup == InitUnsup /\ IdleResample /\ IdleGeom /\ IdleOtf /\ IdleKernel

SpecUnsup == StartUnsup /\ [][NextUnsup]_vars

StartLoop == InitLoop /\ IdleResample /\ IdleGeom /\ IdleOtf /\ IdleKernel

SpecLoop == StartLoop /\ [][NextLoop]_vars

(***************************************************************************)
(* Claims about imresample                                                 *)
(***************************************************************************)

\* C3: the size finally used for the zoom keeps the parity of the image
\* size: (old_size - new_size) is even whenever imresample returns.
C3_ParityConserved ==
    rs_pc = "returned" => (old_size - new_size) % 2 = 0

\* C4: whenever ceil(old_size * source_scale / target_scale) > 10000,
\* imresample ends in MemoryError, and no zoom is ever performed and nothing
\* is returned.
C4_MemoryErrorBeforeZoom ==
    NewSizeRaw(old_size, source_pscale, target_pscale) > SizeLimit
        => /\ rs_pc \in {"start", "sized", "MemoryError"}
           /\ zoom_out = 0
           /\ ratio = <<0, 1>>

C4_Witness ==
    /\ rs_pc = "MemoryError"
    /\ NewSizeRaw(old_size, source_pscale, target_pscale) > SizeLimit
    /\ zoom_out = 0

\* C10: every array imresample returns has side at most 10000: either
\* MemoryError is raised or the size used for the zoom ratio, after the
\* parity adjustment, is at most 10000.
C10_SideAtMostLimit ==
    rs_pc = "returned" => new_size <= SizeLimit /\ zoom_out <= SizeLimit

(***************************************************************************)
(* Claims about trim and zero_pad                                          *)
(***************************************************************************)
\* The target shape is at least the image's on both axes, with even
\* differences.
PadPrecondition ==
    /\ shape[1] >= image.rows /\ shape[2] >= image.cols
    /\ (shape[1] - image.rows) % 2 = 0
    /\ (shape[2] - image.cols) % 2 = 0

\* C1: for a target shape at least as large as the image on both axes and of
\* the same parity per axis, zero_pad(image, shape, 'center') returns an array
\* and trim of it to image.shape returns an array equal to image element for
\* element.
C1_PadTrimRoundTrip ==
    (position = "center" /\ PadPrecondition)
        => /\ g_pc = "padded" => /\ pad_img.status = "ok"
                                 /\ ShapeOf(pad_img.value) = shape
           /\ g_pc = "roundtrip" => /\ trimmed.status = "ok"
                                    /\ trimmed.value = image_in

C1_Witness ==
    /\ g_pc = "roundtrip"
    /\ position = "center"
    /\ PadPrecondition
    /\ shape[1] > image.rows /\ shape[2] > image.cols
    /\ trimmed.value = image_in
    /\ \E p \in DOMAIN image.data : image.data[p] # 0

\* What makes trim raise when the shapes differ.
TrimInvalid ==
    \/ shape[1] <= 0 \/ shape[2] <= 0
    \/ shape[1] > image_in.rows \/ shape[2] > image_in.cols
    \/ (image_in.rows - shape[1]) % 2 # 0
    \/ (image_in.cols - shape[2]) % 2 # 0

\* C7: trim(image, shape) with shape different from image.shape raises
\* ValueError when a target side is <= 0, exceeds the image's, or differs
\* from it by an odd number; otherwise it returns an array of the target
\* shape with out[i][j] = image[i + d0 // 2][j + d1 // 2]; the image is not
\* modified.
C7_TrimContract ==
    (g_pc = "trimmed" /\ shape # ShapeOf(image_in))
        => /\ image = image_in
           /\ IF TrimInvalid
              THEN trimmed.status = "ValueError"
              ELSE /\ trimmed.status = "ok"
                   /\ ShapeOf(trimmed.value) = shape
                   /\ DOMAIN trimmed.value.data = Indices(shape[1], shape[2])
                   /\ \A p \in Indices(shape[1], shape[2]) :
                        trimmed.value.data[p] =
                            image_in.data[<<p[1] + (image_in.rows - shape[1]) \div 2,
                                            p[2] + (image_in.cols - shape[2]) \div 2>>]

C7_Witness ==
    /\ g_pc = "trimmed"
    /\ trimmed.status = "ok"
    /\ shape[1] < image_in.rows /\ shape[2] < image_in.cols
    /\ \E p, q \in DOMAIN image_in.data : image_in.data[p] # image_in.data[q]

(***************************************************************************)
(* Claims about psf2otf and deconv_wiener                                  *)
(***************************************************************************)
\* C5: deconv_wiener of an all-zero PSF of shape at least 3x3 returns a
\* filter whose every element, the one at (0, 0) included, is zero: none is
\* the result of a 0/0 division.
C5_ZeroPsfZeroFilter ==
    (o_pc = "wiener" /\ AllZero(psf) /\ psf.rows >= 3 /\ psf.cols >= 3)
        => \A p \in DOMAIN wiener : IsZero(wiener[p])

\* The centre of the PSF.
Centre == <<psf.rows \div 2, psf.cols \div 2>>

\* C9: for a non-zero PSF and an output shape at least as large, the array
\* handed to the FFT has the output shape and holds at (0, 0) the element
\* the PSF has at (floor(r / 2), floor(c / 2)); a unit impulse at the centre
\* of the PSF becomes a unit impulse at (0, 0), and its OTF has zero
\* imaginary part everywhere.
C9_CentreMovesToOrigin ==
    /\ (o_pc = "start" /\ ~AllZero(psf)
            /\ out_shape[1] >= psf.rows /\ out_shape[2] >= psf.cols)
         => ShiftedPsf(psf, out_shape).status = "ok"
    /\ o_pc \in {"shifted", "returned"}
         => /\ ShapeOf(fft_in) = out_shape
            /\ fft_in.data[<<0, 0>>] = psf.data[Centre]
            /\ psf = Impulse(psf.rows, psf.cols, Centre, 1)
                 => fft_in = Impulse(out_shape[1], out_shape[2], <<0, 0>>, 1)
    /\ (o_pc = "returned" /\ psf = Impulse(psf.rows, psf.cols, Centre, 1))
         => /\ otf.dtype = "real"
            /\ \A p \in DOMAIN otf.array.data : ImagIsZero(otf.array.data[p])

C9_Witness ==
    /\ o_pc = "returned"
    /\ psf = Impulse(psf.rows, psf.cols, Centre, 1)
    /\ psf.rows >= 2 /\ psf.cols >= 2
    /\ out_shape[1] > psf.rows /\ out_shape[2] > psf.cols
    /\ fft_in.data[<<0, 0>>] = 1
    /\ otf.dtype = "real"

(***************************************************************************)
(* Claims about clipping                                                   *)
(***************************************************************************)
\* The value clamp to [-1, 1].
Clamped(a) ==
    Array(a.rows, a.cols,
          [p \in Indices(a.rows, a.cols) |->
              IF a.data[p] > 1 THEN 1 ELSE IF a.data[p] < -1 THEN -1 ELSE a.data[p]])

\* C2: when clip is true the image homogenization_kernel returns is the
\* inverse-transformed kernel clamped to [-1, 1], and so is the 'image'
\* entry deconv_unsup_wiener returns.
C2_ClipClampsImage ==
    /\ (k_pc = "returned" /\ k_clip)
         => /\ kernel_out = Clamped(kernel_image)
            /\ \A p \in DOMAIN kernel_out.data :
                 kernel_out.data[p] >= -1 /\ kernel_out.data[p] <= 1
    /\ (u_pc = "returned" /\ u_clip)
         => /\ result.image = Clamped(post_image)
            /\ \A p \in DOMAIN result.image.data :
                 result.image.data[p] >= -1 /\ result.image.data[p] <= 1

\* C2, for deconv_unsup_wiener alone.
C2_ClipClampsPosteriorMean ==
    (u_pc = "returned" /\ u_clip)
        => \A p \in DOMAIN result.image.data :
             result.image.data[p] >= -1 /\ result.image.data[p] <= 1

(***************************************************************************)
(* Claims about deconv_unsup_wiener                                        *)
(***************************************************************************)
\* C6: with a non-empty user_settings the chain runs with the supplied
\* values in place of the defaults and the defaults for the other keys,
\* ends within max_iter iterations and returns an estimate: it does not
\* fail.
C6_UserSettingsApplied ==
    Truthy(user_settings)
        => /\ u_pc # "TypeError"
           /\ u_pc \notin {"idle", "start"}
                => /\ ~settings.none
                   /\ settings.dict = DictUpdate(DefaultSettings, user_settings.dict)
                   /\ iteration < settings.dict["max_iter"]
           /\ u_pc = "returned" => result.reg_val = "estimate"

\* The stopping test at the end of an iteration, on the values the
\* iteration leaves.
Converged ==
    /\ iteration > settings.dict["min_iter"]
    /\ ~delta.nan
    /\ delta.value < settings.dict["threshold"]

\* C8: the loop runs the indices 0, 1, 2, ... and at most max_iter of them;
\* it stops early at the end of the first iteration i with i > min_iter and
\* delta < threshold, and otherwise runs all max_iter iterations; it never
\* stops early at an iteration where delta is not computed yet
\* (i <= burnin + 1), whatever min_iter is.
C8_LoopStopping ==
    u_pc \in {"loop", "exited"}
        => /\ iteration >= -1 /\ iteration < settings.dict["max_iter"]
           /\ chain_len = iteration + 2
           /\ delta.nan <=> iteration <= settings.dict["burnin"] + 1
           /\ u_pc = "loop" => /\ range_next = iteration + 1
                               /\ ~broke
                               /\ iteration >= 0 => ~Converged
           /\ (u_pc = "exited" /\ broke)
                => /\ Converged
                   /\ iteration > settings.dict["burnin"] + 1
           /\ (u_pc = "exited" /\ ~broke)
                => iteration = settings.dict["max_iter"] - 1

C8_Witness ==
    /\ u_pc = "exited"
    /\ broke
    /\ settings.dict["min_iter"] < settings.dict["burnin"]
    /\ iteration = settings.dict["burnin"] + 2
    /\ iteration < settings.dict["max_iter"] - 1

\* The loop has exited: line 546 divides x_postmean by iteration - burnin.
LoopExited == u_pc \in {"exited", "posterior mean", "returned"}

\* The running sum holds exactly the draws of the iterations with index
\* > burnin, and the divisor of line 546 is their number and at least 1.
PostMeanIsMean ==
    LET burnin == settings.dict["burnin"]
        divisor == iteration - burnin
    IN  /\ divisor >= 1
        /\ Len(x_postmean) = divisor
        /\ x_postmean = [k \in 1 .. divisor |-> burnin + k]
        /\ u_pc \in {"posterior mean", "returned"} => result.divisor = divisor

=============================================================================
